---- MODULE Spec2Model ----
(***************************************************************************)
(* A model of the test-infrastructure glue of this Django fork:            *)
(*   django/test/utils.py  - setup/teardown of the test environment, the   *)
(*                           key-tracking cache factory, override_settings *)
(*   django/db/__init__.py - the database signal handlers                  *)
(* Python objects are records, attributes that may be missing hold ABSENT, *)
(* and a Python call is one action that runs the whole function, up to the *)
(* statement that raises when one does.                                    *)
(***************************************************************************)
EXTENDS Integers, Sequences, FiniteSets, TLC

VARIABLES
    \* ---- django.test.utils: the patched globals ----
    mail_bound,              \* whether the name `mail` resolves in django.test.utils
    Template,                \* [render, original_render]: Template._render, Template.original_render
    mail,                    \* [original_email_backend, outbox]: attributes of django.core.mail
    EMAIL_BACKEND,           \* settings.EMAIL_BACKEND
    cache,                   \* [get_cache, original_get_cache, cache, original_cache] of django.core.cache
    translation_active,      \* a translation is activated for the thread
    test_env_up,             \* history: setup_test_environment has returned, teardown not yet called
    env_calls,               \* history: the setup/teardown calls made, each with the exception it raised
    \* ---- cache instances and the backing store ----
    insts,                   \* every cache instance built so far, by identity (its index)
    caches_used_during_test, \* utils._caches_used_during_test: identities
    store,                   \* the backing store: composed key -> value (missing = not cached)
    last_call,               \* history: the last cache call, its arguments and its result
    built,                   \* history: per instance, the prefix its backend gave it and whether
                             \*          cache.get_cache returned it during a test run
    passed,                  \* history: per instance, the keys passed to its mutating calls
    written,                 \* history: <<KEY_PREFIX, key>> written through test caches in this test method
    \* ---- django.conf.settings and override_settings ----
    settings_wrapped,        \* settings._wrapped: the holder in effect, as its chain of overrides
    objs,                    \* the override_settings objects built so far: [options, wrapped]
    stack,                   \* the with-blocks and decorated functions now running, innermost last
    last_use,                \* history: the last override_settings step and what its caller saw
    tc,                      \* the test of a decorated TransactionTestCase class now running
    last_case,               \* history: the last step of a decorated test case
    \* ---- django.db ----
    connections,             \* the registry: one connection per alias of settings.DATABASES, "default" first
    ignore_num_queries,      \* connections._ignore_num_queries
    last_signal,             \* history: the signal just sent and what its handler did
    ctx,                     \* the assertNumQueries context now open
    last_assert,             \* history: the assertNumQueries just ended and what its caller saw
    \* ---- django.template.loader as django.test.utils patches it ----
    loader,                  \* the module: template_source_loaders and the save slot
    loaders_before_setup,    \* history: template_source_loaders when the last setup that returned began
    last_loader,             \* history: the last template-loader step and what its caller saw
    \* ---- the warnings module ----
    lists,                   \* the list objects alive: lists[i] is the content of object i
    warnings_filters,        \* warnings.filters: the list object the name is bound to
    state,                   \* the object get_warnings_state() returned last, 0 before
    state_taken,             \* history: the content of warnings.filters when it was taken
    last_warn                \* history: the last warnings step

envVars == <<mail_bound, Template, mail, EMAIL_BACKEND, cache, translation_active,
             test_env_up, env_calls>>
cacheVars == <<insts, caches_used_during_test, store, last_call, built, passed, written>>
settingsVars == <<settings_wrapped, objs, stack, last_use, tc, last_case>>
dbVars == <<connections, ignore_num_queries, last_signal, ctx, last_assert>>
loaderVars == <<loader, loaders_before_setup, last_loader>>
warnVars == <<lists, warnings_filters, state, state_taken, last_warn>>
helperVars == <<loaderVars, warnVars>>
vars == <<envVars, cacheVars, settingsVars, dbVars, helperVars>>

-----------------------------------------------------------------------------
(* Bounds of the model *)

\* cache instances built in one run (the module's own cache.cache included)
MaxCaches == 3
\* setup/teardown calls in one run
MaxEnvCalls == 3
\* override_settings objects built in one run
MaxObjs == 2
\* with-blocks and decorated functions running inside one another
MaxDepth == 2
\* aliases in settings.DATABASES
MaxConnections == 2
\* the longest query log of a connection
MaxQueries == 2
\* template-loader steps in one run
MaxLoaderCalls == 4
\* list objects made by get_warnings_state and restore_warnings_state
MaxLists == 4
\* the longest warnings.filters
MaxFilters == 2
\* the largest integer a cache value takes
MaxVal == 2

-----------------------------------------------------------------------------
(* Python values *)

ABSENT == "<absent>"
NoExc == "none"

PyNone == [t |-> "None", v |-> 0]
PyInt(n) == [t |-> "int", v |-> n]
PyBool(b) == [t |-> "bool", v |-> IF b THEN 1 ELSE 0]

\* cache keys used by the tests (tests.py 157-171, 187-197)
Keys == {"sweet", "going_up"}
\* KEY_PREFIX settings a backend is built with
Prefixes == {"", "app"}
\* the integers a cache holds, and the ones the tests store (tests.py 170-171)
Range == 0..MaxVal
Values == {1, 2}
Deltas == {1, 2}

-----------------------------------------------------------------------------
(* The cache backend: django.core.cache.backends.base.BaseCache and the    *)
(* locmem store, as the wrappers and the tests use them.                   *)

\* BaseCache.make_key with the default key function: 'prefix:version:key'
make_key(key_prefix, key) == key_prefix \o ":1:" \o key

Has(st, ck) == ck \in DOMAIN st
Put(st, ck, v) == [x \in (DOMAIN st) \cup {ck} |-> IF x = ck THEN v ELSE st[x]]
Del(st, ck) == [x \in (DOMAIN st) \ {ck} |-> st[x]]

\* cache.get(key): the cached value, None for a key that is not cached
cache_get(st, c, key) ==
    IF Has(st, make_key(c.key_prefix, key))
    THEN PyInt(st[make_key(c.key_prefix, key)])
    ELSE PyNone

\* the unwrapped bound methods saved as requested_cache.original_<name>

original_set(c, key, value, st) ==
    [store |-> Put(st, make_key(c.key_prefix, key), value), ret |-> PyNone, exc |-> NoExc]

original_add(c, key, value, st) ==
    IF Has(st, make_key(c.key_prefix, key))
         THEN [store |-> st, ret |-> PyBool(FALSE), exc |-> NoExc]
         ELSE [store |-> Put(st, make_key(c.key_prefix, key), value),
               ret |-> PyBool(TRUE), exc |-> NoExc]

original_incr(c, key, delta, st) ==
    IF ~Has(st, make_key(c.key_prefix, key))
         THEN [store |-> st, ret |-> PyNone, exc |-> "ValueError"]
         ELSE LET new == st[make_key(c.key_prefix, key)] + delta
              IN  [store |-> Put(st, make_key(c.key_prefix, key), new),
                   ret |-> PyInt(new), exc |-> NoExc]

original_decr(c, key, delta, st) == original_incr(c, key, 0 - delta, st)

RECURSIVE set_each(_, _, _, _)
set_each(c, data, todo, st) ==
    IF todo = {} THEN st
    ELSE LET k == CHOOSE x \in todo : TRUE
         IN  set_each(c, data, todo \ {k}, Put(st, make_key(c.key_prefix, k), data[k]))

original_set_many(c, data, st) ==
    [store |-> set_each(c, data, DOMAIN data, st), ret |-> PyNone, exc |-> NoExc]

RECURSIVE delete_each(_, _, _)
delete_each(c, todo, st) ==
    IF todo = {} THEN st
    ELSE LET k == CHOOSE x \in todo : TRUE
         IN  delete_each(c, todo \ {k}, Del(st, make_key(c.key_prefix, k)))

\* the backend's constructor: a new instance under the configured KEY_PREFIX
original_get_cache(kp) ==
    [key_prefix |-> kp, original_key_prefix |-> ABSENT,
     keys_set_during_test |-> {}, patched |-> FALSE]

-----------------------------------------------------------------------------
(* django/test/utils.py: modified_get_cache and the wrappers it installs   *)

\* a variant that leaves the backend's prefix as it is
TestKeyPrefix_unchanged(original_key_prefix) == original_key_prefix

\* line 77: '_test_%s' % requested_cache.original_key_prefix
TestKeyPrefix(original_key_prefix) == "_test_" \o original_key_prefix

\* a variant that saves the prefix after rewriting it (lines 76 and 77 swapped)
modified_get_cache_saves_late(kp) ==
    LET requested_cache == original_get_cache(kp)
    IN  [key_prefix |-> TestKeyPrefix(requested_cache.key_prefix),
         original_key_prefix |-> TestKeyPrefix(requested_cache.key_prefix),
         keys_set_during_test |-> {},
         patched |-> TRUE]

\* lines 73-120, given that cache.original_get_cache is the backend factory
modified_get_cache(kp) ==
    LET requested_cache == original_get_cache(kp)
    IN  [key_prefix |-> TestKeyPrefix(requested_cache.key_prefix),
         original_key_prefix |-> requested_cache.key_prefix,
         keys_set_during_test |-> {},
         patched |-> TRUE]

\* lines 87-89: records the key, calls through, returns nothing
modified_set(c, key, value, st) ==
    LET r == original_set(c, key, value, st)
    IN  [keys |-> c.keys_set_during_test \cup {key}, store |-> r.store,
         ret |-> PyNone, exc |-> r.exc]

\* a variant that, like modified_set, returns nothing
modified_add_returns_nothing(c, key, value, st) ==
    LET r == original_add(c, key, value, st)
    IN  [keys |-> c.keys_set_during_test \cup {key}, store |-> r.store,
         ret |-> PyNone, exc |-> r.exc]

\* lines 94-96
modified_add(c, key, value, st) ==
    LET r == original_add(c, key, value, st)
    IN  [keys |-> c.keys_set_during_test \cup {key}, store |-> r.store,
         ret |-> r.ret, exc |-> r.exc]

\* a variant that records the key only after the call returned
modified_incr_records_after(c, key, delta, st) ==
    LET r == original_incr(c, key, delta, st)
    IN  [keys |-> IF r.exc = NoExc THEN c.keys_set_during_test \cup {key}
                  ELSE c.keys_set_during_test,
         store |-> r.store, ret |-> r.ret, exc |-> r.exc]

\* lines 101-103
modified_incr(c, key, delta, st) ==
    LET r == original_incr(c, key, delta, st)
    IN  [keys |-> c.keys_set_during_test \cup {key}, store |-> r.store,
         ret |-> r.ret, exc |-> r.exc]

\* a variant that calls through without recording the key
modified_decr_unrecorded(c, key, delta, st) ==
    LET r == original_decr(c, key, delta, st)
    IN  [keys |-> c.keys_set_during_test, store |-> r.store,
         ret |-> r.ret, exc |-> r.exc]

\* lines 108-110
modified_decr(c, key, delta, st) ==
    LET r == original_decr(c, key, delta, st)
    IN  [keys |-> c.keys_set_during_test \cup {key}, store |-> r.store,
         ret |-> r.ret, exc |-> r.exc]

\* lines 115-117
modified_set_many(c, data, st) ==
    LET r == original_set_many(c, data, st)
    IN  [keys |-> c.keys_set_during_test \cup DOMAIN data, store |-> r.store,
         ret |-> PyNone, exc |-> r.exc]

\* a call of cache.get_cache(backend, KEY_PREFIX=kp) with the module in state `c`:
\* the function bound to the name decides what runs
call_get_cache(c, kp) ==
    IF c.get_cache = "get_cache"
    THEN [exc |-> NoExc, inst |-> original_get_cache(kp), tracked |-> FALSE]
    ELSE IF c.original_get_cache = ABSENT
    THEN [exc |-> "AttributeError", inst |-> original_get_cache(kp), tracked |-> FALSE]
    ELSE IF c.original_get_cache = "modified_get_cache"
    THEN [exc |-> "RuntimeError", inst |-> original_get_cache(kp), tracked |-> FALSE]
    ELSE [exc |-> NoExc, inst |-> modified_get_cache(kp), tracked |-> TRUE]

-----------------------------------------------------------------------------
(* django/test/utils.py: setup_test_environment, teardown_test_environment *)
(* A world `w` holds the globals the two functions touch; each function    *)
(* returns the world it leaves and the exception it raised (NoExc: none).  *)

LOCMEM == "django.core.mail.backends.locmem.EmailBackend"
\* django.core.cache.DEFAULT_CACHE_ALIAS is configured without a KEY_PREFIX
DefaultPrefix == ""

World == [Template |-> Template, mail |-> mail, EMAIL_BACKEND |-> EMAIL_BACKEND,
          cache |-> cache, translation_active |-> translation_active,
          insts |-> insts, used |-> caches_used_during_test]

Raised(w, e) == [world |-> w, exc |-> e]

\* lines 123-144; `bound` is whether the name `mail` resolves (utils.py imports
\* settings, cache, Template, loader ... at lines 1-11, and never `mail`)
setup_test_environment(w, bound) ==
    LET w1 == [w EXCEPT !.Template = [render |-> "instrumented_test_render",
                                      original_render |-> w.Template.render]]
        w2 == [w1 EXCEPT !.mail = [original_email_backend |-> w.EMAIL_BACKEND,
                                   outbox |-> "[]"],
                         !.EMAIL_BACKEND = LOCMEM]
        w3 == [w2 EXCEPT !.cache = [get_cache |-> "modified_get_cache",
                                    original_get_cache |-> w.cache.get_cache,
                                    cache |-> w.cache.cache,
                                    original_cache |-> w.cache.cache]]
        g  == call_get_cache(w3.cache, DefaultPrefix)
        w4 == [w3 EXCEPT !.insts = Append(w.insts, g.inst),
                         !.used = IF g.tracked THEN w.used \cup {Len(w.insts) + 1}
                                  ELSE w.used,
                         !.cache.cache = Len(w.insts) + 1]
        w5 == [w4 EXCEPT !.translation_active = FALSE]
    IN  IF ~bound THEN Raised(w1, "NameError")            \* line 133
        ELSE IF g.exc # NoExc THEN Raised(w3, g.exc)       \* line 142
        ELSE Raised(w5, NoExc)

\* lines 147-164; a missing attribute raises AttributeError at its statement.
\* The slots cache.cache and cache.original_cache hold an instance identity,
\* 0 for an attribute that does not exist.
teardown_test_environment(w, bound) ==
    LET w1 == [w EXCEPT !.Template = [render |-> w.Template.original_render,
                                      original_render |-> ABSENT]]
        w2 == [w1 EXCEPT !.EMAIL_BACKEND = w.mail.original_email_backend,
                         !.mail.original_email_backend = ABSENT]
        w3 == [w2 EXCEPT !.mail.outbox = ABSENT]
        w4 == [w3 EXCEPT !.cache.cache = w.cache.original_cache,
                         !.cache.original_cache = 0]
        w5 == [w4 EXCEPT !.cache.get_cache = w.cache.original_get_cache,
                         !.cache.original_get_cache = ABSENT]
    IN  IF w.Template.original_render = ABSENT THEN Raised(w, "AttributeError")   \* 154
        ELSE IF ~bound THEN Raised(w1, "NameError")                               \* 157
        ELSE IF w.mail.original_email_backend = ABSENT THEN Raised(w1, "AttributeError")
        ELSE IF w.mail.outbox = ABSENT THEN Raised(w2, "AttributeError")          \* 159
        ELSE IF w.cache.original_cache = 0 THEN Raised(w3, "AttributeError")      \* 161
        ELSE IF w.cache.original_get_cache = ABSENT THEN Raised(w4, "AttributeError")
        ELSE Raised(w5, NoExc)

-----------------------------------------------------------------------------
(* django/test/utils.py: override_settings (lines 247-292).                *)
(* A settings holder is the chain of override dicts laid over the global   *)
(* settings, outermost first: OverrideSettingsHolder(h) extends h's chain. *)

SettingNames == {"A", "B"}
\* the values of the global settings module
DefaultSettings == [n \in SettingNames |-> 0]
\* the keyword arguments of override_settings(**kwargs): one setting, another
\* one, and both with other values
Kwargs == {("A" :> 1), ("B" :> 2), ("A" :> 2) @@ ("B" :> 1)}

\* getattr(holder, name): UserSettingsHolder looks at its own attributes, then
\* at the holder it wraps
RECURSIVE getattr(_, _)
getattr(holder, name) ==
    IF holder = <<>> THEN DefaultSettings[name]
    ELSE IF name \in DOMAIN holder[Len(holder)] THEN holder[Len(holder)][name]
    ELSE getattr(SubSeq(holder, 1, Len(holder) - 1), name)

\* lines 254-256: __init__ keeps the options and the holder then in effect
override_settings(kwargs, wrapped) == [options |-> kwargs, wrapped |-> wrapped]

\* lines 285-289: a new holder over settings._wrapped, with every option set
enable(self, wrapped) == Append(wrapped, self.options)

\* lines 291-292
disable(self, wrapped) == self.wrapped

\* lines 261-262: __exit__ calls disable() and returns None
exit_suppresses == FALSE

\* what the caller of a with-block (258-262) or of the decorated function
\* (279-282: `with self: return test_func(...)`) sees of the body's outcome
passed_through(body, suppressed) ==
    IF body.kind = "raise" /\ suppressed THEN [kind |-> "return", v |-> 0] ELSE body

\* how a block or a decorated function ends: it returns a value or raises
Outcomes == {[kind |-> "return", v |-> 1], [kind |-> "raise", v |-> 1]}

\* lines 287-288 with 242-244: for each option, OverrideSettingsHolder.__setattr__
\* stores the value on the new holder and then sends setting_changed; the
\* receivers run during send, while settings._wrapped is still `wrapped` (it is
\* assigned at line 289).  `override` holds the options stored so far; the order
\* of self.options.items() is the dictionary's.  Each signal is recorded with
\* what the holder and the global settings return for its key as receivers run.
RECURSIVE setting_changed_sent(_, _, _, _)
setting_changed_sent(options, todo, override, wrapped) ==
    IF todo = {} THEN <<>>
    ELSE LET key == CHOOSE k \in todo : TRUE
             stored == [k \in DOMAIN override \cup {key} |->
                            IF k = key THEN options[key] ELSE override[k]]
         IN  <<[setting |-> key, value |-> options[key],
                holder |-> getattr(Append(wrapped, stored), key),
                settings |-> getattr(wrapped, key)]>>
             \o setting_changed_sent(options, todo \ {key}, stored, wrapped)

\* the signals enable() sends
enable_sends(self, wrapped) ==
    setting_changed_sent(self.options, DOMAIN self.options, <<>>, wrapped)

NoUse == [op |-> "none", obj |-> 0, before |-> <<>>,
          body |-> [kind |-> "return", v |-> 0], seen |-> [kind |-> "return", v |-> 0],
          sent |-> <<>>]

\* lines 268-270: the _pre_setup the decorator puts on the class; `original` is
\* how original_pre_setup ends
wrapped_pre_setup(self, wrapped, original) ==
    [wrapped |-> enable(self, wrapped), during |-> enable(self, wrapped), seen |-> original]

\* lines 271-273: the _post_teardown the decorator puts on the class: disable()
\* is the statement after the call of original_post_teardown
wrapped_post_teardown(self, wrapped, original) ==
    [wrapped |-> IF original.kind = "raise" THEN wrapped ELSE disable(self, wrapped),
     during |-> wrapped, seen |-> original]

NoTest == [phase |-> "idle", obj |-> 0, before |-> <<>>]
NoCaseStep == [op |-> "none", obj |-> 0, before |-> <<>>, during |-> <<>>,
               seen |-> [kind |-> "return", v |-> 0]]

InitSettings ==
    /\ settings_wrapped = <<>>
    /\ objs = <<>>
    /\ stack = <<>>
    /\ last_use = NoUse
    /\ tc = NoTest
    /\ last_case = NoCaseStep

-----------------------------------------------------------------------------
(* django/db/__init__.py: the connection registry and its signal handlers  *)

\* a connection as ConnectionHandler builds it: not connected, nothing logged.
\* `queries` is the length of conn.queries.
NewConnection == [open |-> FALSE, queries |-> 0, managed |-> FALSE, in_txn |-> FALSE]

\* conn.close()
close(conn) == [conn EXCEPT !.open = FALSE, !.in_txn = FALSE]

\* a cursor runs one statement: connects if need be, logs it, leaves work uncommitted
execute(conn) == [conn EXCEPT !.open = TRUE, !.queries = @ + 1, !.in_txn = TRUE]

\* transaction.rollback_unless_managed(using=alias): rolls back outside managed
\* transactions; `fails` is the backend raising DatabaseError from the rollback
rollback_unless_managed(conn, fails) ==
    IF conn.managed THEN [conn |-> conn, exc |-> NoExc]
    ELSE IF fails THEN [conn |-> conn, exc |-> "DatabaseError"]
    ELSE [conn |-> [conn EXCEPT !.in_txn = FALSE], exc |-> NoExc]

\* a variant that closes only connections["default"]
close_connection_default_only(conns) ==
    [a \in DOMAIN conns |-> IF a = 1 THEN close(conns[a]) ELSE conns[a]]

\* lines 33-35: for conn in connections.all(): conn.close()
close_connection(conns) == [a \in DOMAIN conns |-> close(conns[a])]

\* a variant that resets only connections["default"]
reset_queries_default_only(conns) ==
    [a \in DOMAIN conns |-> IF a = 1 THEN [conns[a] EXCEPT !.queries = 0] ELSE conns[a]]

\* lines 40-42: for conn in connections.all(): conn.queries = []
reset_queries(conns) == [a \in DOMAIN conns |-> [conns[a] EXCEPT !.queries = 0]]

\* lines 49-53, from alias `a` on: `failing` are the aliases whose rollback raises
\* DatabaseError; `attempts` counts the rollback calls per alias
RECURSIVE rollback_from(_, _, _, _)
rollback_from(a, conns, failing, attempts) ==
    IF a > Len(conns) THEN [conns |-> conns, attempts |-> attempts, exc |-> NoExc]
    ELSE LET r == rollback_unless_managed(conns[a], a \in failing)
         IN  rollback_from(a + 1, [conns EXCEPT ![a] = r.conn], failing,
                           [attempts EXCEPT ![a] = @ + 1])

\* a variant of the handler without its try/except: the first DatabaseError ends
\* the loop and leaves the handler
rollback_on_exception_uncaught(conns, failing) ==
    LET bad == {a \in DOMAIN conns : a \in failing /\ ~conns[a].managed}
        stop == IF bad = {} THEN Len(conns) ELSE CHOOSE a \in bad : \A b \in bad : a <= b
    IN  [conns |-> [a \in DOMAIN conns |->
                        IF a <= stop
                        THEN rollback_unless_managed(conns[a], a \in failing).conn
                        ELSE conns[a]],
         attempts |-> [a \in DOMAIN conns |-> IF a <= stop THEN 1 ELSE 0],
         exc |-> IF bad = {} THEN NoExc ELSE "DatabaseError"]

\* lines 47-53: _rollback_on_exception
rollback_on_exception(conns, failing) ==
    rollback_from(1, conns, failing, [a \in DOMAIN conns |-> 0])

NoSignal == [name |-> "none", attempts |-> <<>>, failing |-> {}, exc |-> NoExc]
\* no assertNumQueries context is open; `inside` is history: the statements
\* run on the watched connection since the context was entered
NoContext == [active |-> FALSE, num |-> 0, using |-> 1, starting_queries |-> 0,
              inside |-> 0]
NoAssert == [op |-> "none", num |-> 0, inside |-> 0, starting |-> 0,
             body |-> [kind |-> "return", v |-> 0],
             seen |-> [kind |-> "return", v |-> 0], message |-> <<>>]

\* TestCase.assertNumQueries(num, using=alias).__enter__: remembers how long the
\* query log of the watched connection is
assertNumQueries_enter(num, using, conns) ==
    [active |-> TRUE, num |-> num, using |-> using,
     starting_queries |-> conns[using].queries, inside |-> 0]

\* a variant that takes the whole query log for the block's queries
assertNumQueries_exit_whole_log(c, conns, body) ==
    IF body.kind = "raise" THEN [seen |-> body, message |-> <<>>]
    ELSE LET executed == conns[c.using].queries
         IN  IF executed = c.num
             THEN [seen |-> [kind |-> "return", v |-> 0], message |-> <<>>]
             ELSE [seen |-> [kind |-> "AssertionError", v |-> 0],
                   message |-> <<executed, c.num>>]

\* TestCase.assertNumQueries(...).__exit__: an exception of the body goes through;
\* otherwise the growth of the log is compared with num and a mismatch fails with
\* "%d queries executed, %d expected" % (executed, num).  assertNumQueries(num,
\* func) runs func inside the same context.
assertNumQueries_exit(c, conns, body) ==
    IF body.kind = "raise" THEN [seen |-> body, message |-> <<>>]
    ELSE LET executed == conns[c.using].queries - c.starting_queries
         IN  IF executed = c.num
             THEN [seen |-> [kind |-> "return", v |-> 0], message |-> <<>>]
             ELSE [seen |-> [kind |-> "AssertionError", v |-> 0],
                   message |-> <<executed, c.num>>]

\* the registry of a project with DATABASES = {"default": ...}, nothing sent yet
InitDB ==
    /\ connections = <<NewConnection>>
    /\ ignore_num_queries = FALSE
    /\ last_signal = NoSignal
    /\ ctx = NoContext
    /\ last_assert = NoAssert

-----------------------------------------------------------------------------
(* django/test/utils.py 200-235: the template-loader substitution          *)

TemplateNames == {"base.html", "404.html"}
\* a name no dictionary of the model holds
OtherNames == {"missing.html"}
Contents == {"<p>hi</p>"}

\* templates_dict: a name maps to its content, or to ABSENT when it is no key
TemplateDicts == [TemplateNames -> Contents \cup {ABSENT}]
EmptyDict == [n \in TemplateNames |-> ABSENT]

\* loader.template_source_loaders is None until the loaders are first needed,
\* and a tuple of loaders afterwards
NoLoaders == [is_none |-> TRUE, items |-> <<>>]
Loaders(items) == [is_none |-> FALSE, items |-> items]
NoLoader == [kind |-> "none", dict |-> EmptyDict]
ConfiguredLoaders ==
    Loaders(<<[kind |-> "filesystem", dict |-> EmptyDict],
              [kind |-> "app_directories", dict |-> EmptyDict]>>)

\* the attribute RESTORE_LOADERS_ATTR of the module: missing, or holding a value
NoSlot == [present |-> FALSE, value |-> NoLoaders]
Slot(value) == [present |-> TRUE, value |-> value]

NoResult == [ret |-> <<>>, exc |-> NoExc]

\* lines 211-216: the closure over templates_dict
test_template_loader(templates_dict, template_name) ==
    IF template_name \in DOMAIN templates_dict /\ templates_dict[template_name] # ABSENT
    THEN [ret |-> <<templates_dict[template_name], "test:" \o template_name>>,
          exc |-> NoExc]
    ELSE [ret |-> <<>>, exc |-> "TemplateDoesNotExist"]

\* cached.Loader called with a name: it asks its _cached_loaders, compiles the
\* source it gets and hands back the compiled template without an origin
cached_Loader(templates_dict, template_name) ==
    LET found == test_template_loader(templates_dict, template_name)
    IN  IF found.exc # NoExc THEN found
        ELSE [ret |-> <<"Template(" \o found.ret[1] \o ")", "None">>, exc |-> NoExc]

\* loader.template_source_loaders[i](template_name) for a loader setup installed
call_loader(l, template_name) ==
    IF l.kind = "cached" THEN cached_Loader(l.dict, template_name)
    ELSE test_template_loader(l.dict, template_name)

\* a variant without the guard of lines 208-209
setup_test_template_loader_unguarded(ld, templates_dict, use_cached_loader) ==
    LET template_loader == [kind |-> IF use_cached_loader THEN "cached" ELSE "function",
                            dict |-> templates_dict]
    IN  [loader |-> [template_source_loaders |-> Loaders(<<template_loader>>),
                     original_template_source_loaders |-> Slot(ld.template_source_loaders)],
         ret |-> template_loader, exc |-> NoExc]

\* lines 200-226; ld.original_template_source_loaders is the attribute
\* loader._original_template_source_loaders
setup_test_template_loader(ld, templates_dict, use_cached_loader) ==
    IF ld.original_template_source_loaders.present
    THEN [loader |-> ld, ret |-> NoLoader, exc |-> "Exception"]
    ELSE LET template_loader ==
                 [kind |-> IF use_cached_loader THEN "cached" ELSE "function",
                  dict |-> templates_dict]
         IN  [loader |-> [template_source_loaders |-> Loaders(<<template_loader>>),
                          original_template_source_loaders |->
                              Slot(ld.template_source_loaders)],
              ret |-> template_loader, exc |-> NoExc]

\* lines 229-235: getattr raises AttributeError when the slot is missing
restore_template_loaders(ld) ==
    IF ~ld.original_template_source_loaders.present
    THEN [loader |-> ld, exc |-> "AttributeError"]
    ELSE [loader |-> [template_source_loaders |->
                          ld.original_template_source_loaders.value,
                      original_template_source_loaders |-> NoSlot],
          exc |-> NoExc]

\* warnings.simplefilter(action): filters.insert(0, item) on the list
\* warnings.filters is bound to
simplefilter(ls, filters, item) == [ls EXCEPT ![filters] = <<item>> \o @]

\* a variant that hands out warnings.filters itself
get_warnings_state_no_copy(ls, filters) == [lists |-> ls, ret |-> filters]

\* lines 165-172: warnings.filters[:] is a new list with the same items
get_warnings_state(ls, filters) == [lists |-> Append(ls, ls[filters]), ret |-> Len(ls) + 1]

\* lines 175-180: warnings.filters = state[:] binds the name to a new list
restore_warnings_state(ls, st) == [lists |-> Append(ls, ls[st]), filters |-> Len(ls) + 1]

FilterItems == {"error", "ignore"}
NoWarnStep == [op |-> "none", added |-> 0, restores |-> 0]

NoLoaderStep == [op |-> "none", n |-> 0, before |-> [template_source_loaders |-> NoLoaders,
                                            original_template_source_loaders |-> NoSlot],
                 dict |-> EmptyDict, cached |-> FALSE, ret |-> NoLoader,
                 name |-> "", seen |-> NoResult, exc |-> NoExc]

\* the template loaders of a project are `t` and no test loader is installed
LoaderStart(t) ==
    /\ loader = [template_source_loaders |-> t,
                 original_template_source_loaders |-> NoSlot]
    /\ loaders_before_setup = NoLoaders
    /\ last_loader = NoLoaderStep

\* warnings.filters is a list holding `l` and no state has been taken
WarnStart(l) ==
    /\ lists = <<l>>
    /\ warnings_filters = 1
    /\ state = 0
    /\ state_taken = <<>>
    /\ last_warn = NoWarnStep

InitHelpers == LoaderStart(NoLoaders) /\ WarnStart(<<>>)

-----------------------------------------------------------------------------
(* The initial state: the interpreter after importing django.test.utils,   *)
(* the store as tests.py setUpClass (lines 150-173) leaves it.             *)

NoCall == [op |-> "none", c |-> 0, keys |-> {}, ret |-> PyNone, exc |-> NoExc,
           ref |-> [ret |-> PyNone, exc |-> NoExc], cleared |-> {}]

\* every key holds a value under each configured prefix, and "going_up" holds
\* one under each '_test_' prefix too (tests.py 157-158, 167-171)
PreStoreKeys == {make_key(p, k) : p \in Prefixes, k \in Keys}
                  \cup {make_key("_test_" \o p, "going_up") : p \in Prefixes}
PreStore == [ck \in PreStoreKeys |-> 1]

FreshTemplate == [render |-> "Template._render", original_render |-> ABSENT]
FreshMail == [original_email_backend |-> ABSENT, outbox |-> ABSENT]
FreshCache == [get_cache |-> "get_cache", original_get_cache |-> ABSENT,
               cache |-> 1, original_cache |-> 0]
SMTP == "django.core.mail.backends.smtp.EmailBackend"

InitEnv ==
    /\ mail_bound \in BOOLEAN
    /\ Template = FreshTemplate
    /\ mail = FreshMail
    /\ EMAIL_BACKEND = SMTP
    /\ cache = FreshCache
    /\ translation_active \in BOOLEAN
    /\ test_env_up = FALSE
    /\ env_calls = <<>>

InitCaches ==
    /\ insts = <<original_get_cache(DefaultPrefix)>>
    /\ built = <<[prefix |-> DefaultPrefix, in_run |-> FALSE]>>
    /\ caches_used_during_test = {}
    /\ store = PreStore
    /\ last_call = NoCall
    /\ passed = <<{}>>
    /\ written = {}

Init == InitEnv /\ InitCaches /\ InitSettings /\ InitDB /\ InitHelpers

-----------------------------------------------------------------------------
(* Actions of the test environment *)

SetWorld(w) ==
    /\ Template' = w.Template
    /\ mail' = w.mail
    /\ EMAIL_BACKEND' = w.EMAIL_BACKEND
    /\ cache' = w.cache
    /\ translation_active' = w.translation_active
    /\ insts' = w.insts
    /\ caches_used_during_test' = w.used

\* the test runner calls setup_test_environment()
Setup ==
    /\ Len(env_calls) < MaxEnvCalls
    /\ Len(insts) < MaxCaches
    /\ LET r == setup_test_environment(World, mail_bound)
       IN  /\ SetWorld(r.world)
           /\ env_calls' = Append(env_calls, [op |-> "setup", exc |-> r.exc])
           /\ test_env_up' = IF r.exc = NoExc THEN TRUE ELSE test_env_up
           /\ built' = IF Len(r.world.insts) > Len(insts)
                       THEN Append(built, [prefix |-> DefaultPrefix, in_run |-> TRUE])
                       ELSE built
           /\ passed' = IF Len(r.world.insts) > Len(insts)
                        THEN Append(passed, {}) ELSE passed
    /\ UNCHANGED <<mail_bound, store, last_call, written, settingsVars, dbVars, helperVars>>

\* the test runner calls teardown_test_environment()
Teardown ==
    /\ Len(env_calls) < MaxEnvCalls
    /\ LET r == teardown_test_environment(World, mail_bound)
       IN  /\ SetWorld(r.world)
           /\ env_calls' = Append(env_calls, [op |-> "teardown", exc |-> r.exc])
    /\ test_env_up' = FALSE
    /\ UNCHANGED <<mail_bound, store, last_call, built, passed, written, settingsVars, dbVars, helperVars>>

\* some code calls cache.get_cache(backend, KEY_PREFIX=kp)
GetCache(kp) ==
    /\ Len(insts) < MaxCaches
    /\ LET g == call_get_cache(cache, kp)
       IN  /\ last_call' = [NoCall EXCEPT !.op = "get_cache", !.exc = g.exc,
                                         !.c = IF g.exc = NoExc THEN Len(insts) + 1 ELSE 0]
           /\ insts' = IF g.exc = NoExc THEN Append(insts, g.inst) ELSE insts
           /\ built' = IF g.exc = NoExc
                       THEN Append(built, [prefix |-> kp, in_run |-> test_env_up])
                       ELSE built
           /\ passed' = IF g.exc = NoExc THEN Append(passed, {}) ELSE passed
           /\ caches_used_during_test' =
                  IF g.exc = NoExc /\ g.tracked
                  THEN caches_used_during_test \cup {Len(insts) + 1}
                  ELSE caches_used_during_test
    /\ UNCHANGED <<envVars, store, written, settingsVars, dbVars, helperVars>>

Next ==
    \/ Setup
    \/ Teardown
    \/ \E kp \in Prefixes : GetCache(kp)

Spec == Init /\ [][Next]_vars

-----------------------------------------------------------------------------
(* Calls made through the cache instances during a test run *)

TestCaches == {i \in 1..Len(insts) : insts[i].patched}

\* the state a wrapped call leaves: `r` is the wrapper's result, `ref` what the
\* unwrapped method saved on the instance does for the same arguments
Called(i, op, keys, r, ref) ==
    /\ store' = r.store
    /\ insts' = [insts EXCEPT ![i].keys_set_during_test = r.keys]
    /\ last_call' = [op |-> op, c |-> i, keys |-> keys, ret |-> r.ret, exc |-> r.exc,
                     ref |-> ref, cleared |-> {}]
    /\ passed' = [passed EXCEPT ![i] = @ \cup keys]
    /\ written' = written \cup {<<built[i].prefix, k>> : k \in keys}
    /\ UNCHANGED <<envVars, caches_used_during_test, built, settingsVars, dbVars, helperVars>>

InRange(st, c, key, delta) ==
    Has(st, make_key(c.key_prefix, key))
        => st[make_key(c.key_prefix, key)] + delta \in Range

\* cache.set(key, value)
CacheSet(i, key, value) ==
    /\ i \in TestCaches
    /\ Called(i, "set", {key}, modified_set(insts[i], key, value, store),
              original_set(insts[i], key, value, store))

\* cache.add(key, value)
CacheAdd(i, key, value) ==
    /\ i \in TestCaches
    /\ Called(i, "add", {key}, modified_add(insts[i], key, value, store),
              original_add(insts[i], key, value, store))

\* cache.incr(key, delta)
CacheIncr(i, key, delta) ==
    /\ i \in TestCaches
    /\ InRange(store, insts[i], key, delta)
    /\ Called(i, "incr", {key}, modified_incr(insts[i], key, delta, store),
              original_incr(insts[i], key, delta, store))

\* cache.decr(key, delta)
CacheDecr(i, key, delta) ==
    /\ i \in TestCaches
    /\ InRange(store, insts[i], key, 0 - delta)
    /\ Called(i, "decr", {key}, modified_decr(insts[i], key, delta, store),
              original_decr(insts[i], key, delta, store))

\* cache.set_many(data)
CacheSetMany(i, data) ==
    /\ i \in TestCaches
    /\ Called(i, "set_many", DOMAIN data, modified_set_many(insts[i], data, store),
              original_set_many(insts[i], data, store))

\* the dicts passed to set_many
Dicts == UNION {[ks -> Values] : ks \in SUBSET Keys}

\* The reset between two test methods (django/test/testcases.py): every cache
\* used during the test deletes the keys it recorded and forgets them.
RECURSIVE reset_caches(_, _, _)
reset_caches(st, is, todo) ==
    IF todo = {} THEN [store |-> st, insts |-> is]
    ELSE LET i == CHOOSE x \in todo : TRUE
         IN  reset_caches(delete_each(is[i], is[i].keys_set_during_test, st),
                          [is EXCEPT ![i].keys_set_during_test = {}],
                          todo \ {i})

EndTestMethod ==
    /\ written # {}
    /\ LET r == reset_caches(store, insts, caches_used_during_test)
       IN  /\ store' = r.store
           /\ insts' = r.insts
    /\ last_call' = [NoCall EXCEPT !.op = "reset", !.cleared = written]
    /\ passed' = [i \in DOMAIN passed |-> {}]
    /\ written' = {}
    /\ UNCHANGED <<envVars, caches_used_during_test, built, settingsVars, dbVars, helperVars>>

\* A test run under way: setup_test_environment() has returned, and the test
\* case has built its own cache with get_cache (tests.py 175-177), under any of
\* the configured prefixes.
InitTestRun ==
    \E kp \in Prefixes :
    LET fresh == [Template |-> FreshTemplate, mail |-> FreshMail, EMAIL_BACKEND |-> SMTP,
                  cache |-> FreshCache, translation_active |-> TRUE,
                  insts |-> <<original_get_cache(DefaultPrefix)>>, used |-> {}]
        r == setup_test_environment(fresh, TRUE)
        g == call_get_cache(r.world.cache, kp)
    IN  /\ mail_bound = TRUE
        /\ Template = r.world.Template
        /\ mail = r.world.mail
        /\ EMAIL_BACKEND = r.world.EMAIL_BACKEND
        /\ cache = r.world.cache
        /\ translation_active = r.world.translation_active
        /\ test_env_up = (r.exc = NoExc)
        /\ env_calls = <<[op |-> "setup", exc |-> r.exc]>>
        /\ insts = Append(r.world.insts, g.inst)
        /\ caches_used_during_test =
               IF g.tracked THEN r.world.used \cup {Len(r.world.insts) + 1}
               ELSE r.world.used
        /\ built = <<[prefix |-> DefaultPrefix, in_run |-> FALSE],
                     [prefix |-> DefaultPrefix, in_run |-> TRUE],
                     [prefix |-> kp, in_run |-> TRUE]>>
        /\ store = PreStore
        /\ last_call = NoCall
        /\ passed = <<{}, {}, {}>>
        /\ written = {}
        /\ InitSettings
        /\ InitDB
        /\ InitHelpers

NextTestRun ==
    \/ \E i \in TestCaches, k \in Keys, v \in Values : CacheSet(i, k, v)
    \/ \E i \in TestCaches, k \in Keys, v \in Values : CacheAdd(i, k, v)
    \/ \E i \in TestCaches, k \in Keys, d \in Deltas : CacheIncr(i, k, d)
    \/ \E i \in TestCaches, k \in Keys, d \in Deltas : CacheDecr(i, k, d)
    \/ \E i \in TestCaches, d \in Dicts : CacheSetMany(i, d)
    \/ EndTestMethod

SpecTestRun == InitTestRun /\ [][NextTestRun]_vars

-----------------------------------------------------------------------------
(* Claims about the test environment and the test caches *)

\* C1: every cache instance cache.get_cache returns between setup and teardown
\* has key_prefix '_test_' + the prefix its backend gave it, has that prefix
\* saved in original_key_prefix, and is in _caches_used_during_test.
C1_TestCachesPrefixed ==
    \A i \in 1..Len(insts) :
        built[i].in_run =>
            /\ insts[i].key_prefix = "_test_" \o built[i].prefix
            /\ insts[i].original_key_prefix = built[i].prefix
            /\ i \in caches_used_during_test

C1_Witness ==
    /\ test_env_up
    /\ \E i \in 1..Len(insts) :
           /\ built[i].in_run
           /\ built[i].prefix = "app"
           /\ insts[i].key_prefix = "_test_app"
           /\ last_call.op = "get_cache" /\ last_call.c = i

\* C2: the key set of a test cache holds every key passed to its set, add, incr,
\* decr and set_many calls, the calls that raised included.
C2_KeysRecorded ==
    \A i \in TestCaches : passed[i] \subseteq insts[i].keys_set_during_test

C2_Witness ==
    /\ last_call.op = "incr"
    /\ last_call.exc = "ValueError"
    /\ last_call.keys \subseteq insts[last_call.c].keys_set_during_test
    /\ \E j \in TestCaches : j # last_call.c /\ passed[j] = Keys

\* C3: whatever is written through test caches, every key read through a cache
\* from original_get_cache on the same store returns the value it had before.
C3_PreExistingUntouched ==
    \A p \in Prefixes, k \in Keys :
        cache_get(store, original_get_cache(p), k)
            = cache_get(PreStore, original_get_cache(p), k)

C3_Witness ==
    /\ last_call.op = "set"
    /\ last_call.keys = {"sweet"}
    /\ cache_get(store, insts[last_call.c], "sweet") = PyInt(2)
    /\ cache_get(store, original_get_cache(built[last_call.c].prefix), "sweet") = PyInt(1)

\* C4: once a test method has ended, get through a test cache returns None for
\* every key written through a test cache on that store during the method, the
\* keys that existed under the '_test_' prefix beforehand included.
C4_NoCarryOver ==
    last_call.op = "reset" =>
        \A w \in last_call.cleared :
            cache_get(store, modified_get_cache(w[1]), w[2]) = PyNone

C4_Witness ==
    /\ last_call.op = "reset"
    /\ <<"", "going_up">> \in last_call.cleared
    /\ <<"", "sweet">> \in last_call.cleared
    /\ ~Has(store, "_test_:1:going_up")
    /\ Has(PreStore, "_test_:1:going_up")

\* C5: a wrapped call changes the store and returns (or raises) as the unwrapped
\* method does: set and set_many return None, add whether it added the key,
\* incr and decr the new value.
C5_WrappersTransparent ==
    last_call.op \in {"set", "add", "incr", "decr", "set_many"} =>
        /\ store = last_call.ref.store
        /\ last_call.ret = last_call.ref.ret
        /\ last_call.exc = last_call.ref.exc
        /\ last_call.op \in {"set", "set_many"} => last_call.ret = PyNone
        /\ last_call.op = "add" => last_call.ret.t = "bool"
        /\ (last_call.op \in {"incr", "decr"} /\ last_call.exc = NoExc) =>
               \A k \in last_call.keys :
                   cache_get(store, insts[last_call.c], k) = last_call.ret

C5_Witness ==
    /\ last_call.op = "add"
    /\ last_call.ret = PyBool(TRUE)
    /\ \A k \in last_call.keys : cache_get(store, insts[last_call.c], k) # PyNone

\* C6: setup_test_environment() then teardown_test_environment() raise nothing;
\* in between the globals are patched, afterwards they are as before and the
\* save slots are gone.
C6_SetupTeardownRoundTrip ==
    /\ (Len(env_calls) >= 1 /\ env_calls[1].op = "setup") =>
           /\ env_calls[1].exc = NoExc
           /\ Len(env_calls) = 1 =>
                  /\ Template.render = "instrumented_test_render"
                  /\ EMAIL_BACKEND = LOCMEM
                  /\ mail.outbox = "[]"
                  /\ cache.get_cache = "modified_get_cache"
    /\ (Len(env_calls) = 2 /\ env_calls[1].op = "setup" /\ env_calls[2].op = "teardown") =>
           /\ env_calls[2].exc = NoExc
           /\ Template = FreshTemplate
           /\ EMAIL_BACKEND = SMTP
           /\ mail = FreshMail
           /\ cache = FreshCache

-----------------------------------------------------------------------------
(* Uses of override_settings *)

\* the interpreter with django.test.utils imported and no test environment set up
QuietEnv ==
    /\ mail_bound = FALSE
    /\ Template = FreshTemplate
    /\ mail = FreshMail
    /\ EMAIL_BACKEND = SMTP
    /\ cache = FreshCache
    /\ translation_active = TRUE
    /\ test_env_up = FALSE
    /\ env_calls = <<>>

\* override_settings(**kwargs): as a decorator at import time, or inline
Construct(kwargs) ==
    /\ Len(objs) < MaxObjs
    /\ objs' = Append(objs, override_settings(kwargs, settings_wrapped))
    /\ last_use' = [NoUse EXCEPT !.op = "construct", !.obj = Len(objs) + 1]
    /\ UNCHANGED <<settings_wrapped, stack, tc, last_case, envVars, cacheVars, dbVars, helperVars>>

\* `with objs[o]:` is entered, or the function objs[o] decorates is called,
\* which runs its body inside `with self:` (line 281): __enter__ runs enable()
Enter(o) ==
    /\ o \in 1..Len(objs)
    /\ Len(stack) < MaxDepth
    /\ Len(settings_wrapped) < MaxDepth
    /\ settings_wrapped' = enable(objs[o], settings_wrapped)
    /\ stack' = Append(stack, [obj |-> o, before |-> settings_wrapped])
    /\ last_use' = [NoUse EXCEPT !.op = "enter", !.obj = o, !.before = settings_wrapped,
                                 !.sent = enable_sends(objs[o], settings_wrapped)]
    /\ UNCHANGED <<objs, tc, last_case, envVars, cacheVars, dbVars, helperVars>>

\* the innermost block or function ends with `body`: __exit__ runs disable()
Exit(body) ==
    /\ stack # <<>>
    /\ LET t == stack[Len(stack)]
       IN  /\ settings_wrapped' = disable(objs[t.obj], settings_wrapped)
           /\ last_use' = [op |-> "exit", obj |-> t.obj,
                           before |-> t.before, body |-> body,
                           seen |-> passed_through(body, exit_suppresses),
                           sent |-> <<>>]
    /\ stack' = SubSeq(stack, 1, Len(stack) - 1)
    /\ UNCHANGED <<objs, tc, last_case, envVars, cacheVars, dbVars, helperVars>>

InitOverrides == QuietEnv /\ InitCaches /\ InitSettings /\ InitDB /\ InitHelpers

NextOverrides ==
    \/ \E kw \in Kwargs : Construct(kw)
    \/ \E o \in 1..MaxObjs : Enter(o)
    \/ \E body \in Outcomes : Exit(body)

SpecOverrides == InitOverrides /\ [][NextOverrides]_vars

\* C7: while a with-block or decorated function of override_settings runs, the
\* overridden settings read as their override values and the others as before
\* entry; when it ends, by return or by raise, the holder in effect before entry
\* is back and the caller sees the body's return value or exception.
C7_OverrideScoped ==
    /\ stack # <<>> =>
           LET t == stack[Len(stack)]
           IN  \A n \in SettingNames :
                   getattr(settings_wrapped, n) =
                       IF n \in DOMAIN objs[t.obj].options
                       THEN objs[t.obj].options[n]
                       ELSE getattr(t.before, n)
    /\ last_use.op = "exit" =>
           /\ settings_wrapped = last_use.before
           /\ last_use.seen = last_use.body

-----------------------------------------------------------------------------
(* Requests against the connection registry *)

Aliases == 1..Len(connections)

\* code runs a statement on connections[a]
Execute(a) ==
    /\ a \in Aliases
    /\ connections[a].queries < MaxQueries
    /\ connections' = [connections EXCEPT ![a] = execute(@)]
    /\ last_signal' = NoSignal
    /\ last_assert' = [NoAssert EXCEPT !.op = "execute"]
    /\ ctx' = IF ctx.active /\ ctx.using = a THEN [ctx EXCEPT !.inside = @ + 1] ELSE ctx
    /\ UNCHANGED <<ignore_num_queries, envVars, cacheVars, settingsVars, helperVars>>

\* code enters or leaves transaction management on connections[a]
SetManaged(a, managed) ==
    /\ a \in Aliases
    /\ connections[a].managed # managed
    /\ connections' = [connections EXCEPT ![a].managed = managed]
    /\ last_signal' = NoSignal
    /\ UNCHANGED <<ignore_num_queries, ctx, last_assert, envVars, cacheVars, settingsVars, helperVars>>

\* signals.request_started.send(): runs reset_queries
RequestStarted ==
    /\ connections' = reset_queries(connections)
    /\ last_signal' = [NoSignal EXCEPT !.name = "request_started"]
    /\ UNCHANGED <<ignore_num_queries, ctx, last_assert, envVars, cacheVars, settingsVars, helperVars>>

\* signals.request_finished.send(): runs close_connection
RequestFinished ==
    /\ connections' = close_connection(connections)
    /\ last_signal' = [NoSignal EXCEPT !.name = "request_finished"]
    /\ UNCHANGED <<ignore_num_queries, ctx, last_assert, envVars, cacheVars, settingsVars, helperVars>>

\* signals.got_request_exception.send(): runs _rollback_on_exception
GotRequestException(failing) ==
    /\ failing \subseteq Aliases
    /\ LET r == rollback_on_exception(connections, failing)
       IN  /\ connections' = r.conns
           /\ last_signal' = [name |-> "got_request_exception", attempts |-> r.attempts,
                              failing |-> failing, exc |-> r.exc]
    /\ UNCHANGED <<ignore_num_queries, ctx, last_assert, envVars, cacheVars, settingsVars, helperVars>>

\* a project with any number of aliases, "default" among them (lines 11-14)
InitRequests ==
    /\ \E n \in 1..MaxConnections : connections = [a \in 1..n |-> NewConnection]
    /\ ignore_num_queries = FALSE
    /\ last_signal = NoSignal
    /\ ctx = NoContext
    /\ last_assert = NoAssert
    /\ QuietEnv /\ InitCaches /\ InitSettings /\ InitHelpers

NextRequests ==
    \/ \E a \in 1..MaxConnections : Execute(a)
    \/ \E a \in 1..MaxConnections, m \in BOOLEAN : SetManaged(a, m)
    \/ RequestStarted
    \/ RequestFinished
    \/ \E failing \in SUBSET (1..MaxConnections) : GotRequestException(failing)

SpecRequests == InitRequests /\ [][NextRequests]_vars

\* C8: after request_started every connection's query log is empty, after
\* request_finished every connection is closed, however many are registered.
C8_HandlersReachEveryConnection ==
    /\ last_signal.name = "request_started" =>
           \A a \in Aliases : connections[a].queries = 0
    /\ last_signal.name = "request_finished" =>
           \A a \in Aliases : ~connections[a].open

C8_Witness ==
    /\ last_signal.name = "request_finished"
    /\ Len(connections) = MaxConnections
    /\ \A a \in Aliases : connections[a].queries > 0 /\ ~connections[a].open

\* C9: on got_request_exception every connection gets one rollback attempt, a
\* DatabaseError from one of them is swallowed and the others are still rolled
\* back, and the handler raises nothing.
C9_RollbackEveryConnection ==
    last_signal.name = "got_request_exception" =>
        /\ \A a \in Aliases : last_signal.attempts[a] = 1
        /\ last_signal.exc = NoExc
        /\ \A a \in Aliases :
               (~connections[a].managed /\ a \notin last_signal.failing)
                   => ~connections[a].in_txn

C9_Witness ==
    /\ last_signal.name = "got_request_exception"
    /\ Len(connections) >= 2
    /\ 1 \in last_signal.failing
    /\ ~connections[1].managed /\ connections[1].in_txn
    /\ \E a \in Aliases : a > 1 /\ connections[a].open /\ ~connections[a].in_txn
                           /\ ~connections[a].managed /\ last_signal.attempts[a] = 1

-----------------------------------------------------------------------------
(* Query-count assertions around blocks of test code *)

Nums == 0..MaxQueries

\* with self.assertNumQueries(num, using=using): ...
EnterAssert(num, using) ==
    /\ ~ctx.active
    /\ using \in Aliases
    /\ ctx' = assertNumQueries_enter(num, using, connections)
    /\ last_assert' = [NoAssert EXCEPT !.op = "enter"]
    /\ UNCHANGED <<connections, ignore_num_queries, last_signal, envVars, cacheVars,
                   settingsVars, helperVars>>

\* the block, or the callable, ends with outcome `body`
ExitAssert(body) ==
    /\ ctx.active
    /\ LET r == assertNumQueries_exit(ctx, connections, body)
       IN  last_assert' = [op |-> "exit", num |-> ctx.num, inside |-> ctx.inside,
                           starting |-> ctx.starting_queries, body |-> body,
                           seen |-> r.seen, message |-> r.message]
    /\ ctx' = NoContext
    /\ UNCHANGED <<connections, ignore_num_queries, last_signal, envVars, cacheVars,
                   settingsVars, helperVars>>

InitQueries == InitRequests

NextQueries ==
    \/ \E a \in 1..MaxConnections : Execute(a)
    \/ \E num \in Nums, using \in 1..MaxConnections : EnterAssert(num, using)
    \/ \E body \in Outcomes : ExitAssert(body)

SpecQueries == InitQueries /\ [][NextQueries]_vars

\* C10: assertNumQueries(n) succeeds exactly when n statements ran inside it,
\* fails otherwise with AssertionError "<executed> queries executed, <n>
\* expected", and lets an exception of the block through whatever n is.
C10_AssertNumQueries ==
    last_assert.op = "exit" =>
        IF last_assert.body.kind = "raise"
        THEN last_assert.seen = last_assert.body
        ELSE /\ last_assert.seen.kind = "return" <=> last_assert.inside = last_assert.num
             /\ last_assert.inside # last_assert.num =>
                    /\ last_assert.seen.kind = "AssertionError"
                    /\ last_assert.message = <<last_assert.inside, last_assert.num>>

C10_Witness ==
    /\ last_assert.op = "exit"
    /\ last_assert.body.kind = "return"
    /\ last_assert.starting > 0
    /\ last_assert.inside = 1
    /\ last_assert.num = 2
    /\ last_assert.seen.kind = "AssertionError"
    /\ last_assert.message = <<1, 2>>

-----------------------------------------------------------------------------
(* Tests that substitute the template loaders *)

\* setup_test_template_loader(templates_dict, use_cached_loader)
SetupTestTemplateLoader(templates_dict, use_cached_loader) ==
    /\ last_loader.n < MaxLoaderCalls
    /\ LET r == setup_test_template_loader(loader, templates_dict, use_cached_loader)
       IN  /\ loader' = r.loader
           /\ loaders_before_setup' = IF r.exc = NoExc THEN loader.template_source_loaders
                                      ELSE loaders_before_setup
           /\ last_loader' = [NoLoaderStep EXCEPT !.op = "setup", !.n = last_loader.n + 1,
                                  !.before = loader,
                                  !.dict = templates_dict, !.cached = use_cached_loader,
                                  !.ret = r.ret, !.exc = r.exc]
    /\ UNCHANGED <<warnVars, envVars, cacheVars, settingsVars, dbVars>>

\* restore_template_loaders()
RestoreTemplateLoaders ==
    /\ last_loader.n < MaxLoaderCalls
    /\ LET r == restore_template_loaders(loader)
       IN  /\ loader' = r.loader
           /\ last_loader' = [NoLoaderStep EXCEPT !.op = "restore", !.n = last_loader.n + 1,
                                  !.before = loader, !.exc = r.exc]
    /\ UNCHANGED <<loaders_before_setup, warnVars, envVars, cacheVars, settingsVars, dbVars>>

\* the template engine asks the installed test loader for template_name
FindTemplate(template_name) ==
    /\ last_loader.n < MaxLoaderCalls
    /\ loader.original_template_source_loaders.present
    /\ LET l == loader.template_source_loaders.items[1]
       IN  last_loader' = [NoLoaderStep EXCEPT !.op = "find", !.n = last_loader.n + 1,
                               !.before = loader,
                               !.dict = l.dict, !.cached = (l.kind = "cached"),
                               !.ret = l, !.name = template_name,
                               !.seen = call_loader(l, template_name)]
    /\ UNCHANGED <<loader, loaders_before_setup, warnVars, envVars, cacheVars, settingsVars, dbVars>>

\* the loaders are not loaded yet, or loaded from TEMPLATE_LOADERS
InitLoaders ==
    /\ QuietEnv /\ InitCaches /\ InitSettings /\ InitDB
    /\ \E t \in {NoLoaders, ConfiguredLoaders} : LoaderStart(t)
    /\ WarnStart(<<>>)

NextLoaders ==
    \/ \E d \in TemplateDicts, c \in BOOLEAN : SetupTestTemplateLoader(d, c)
    \/ RestoreTemplateLoaders
    \/ \E name \in TemplateNames \cup OtherNames : FindTemplate(name)

SpecLoaders == InitLoaders /\ [][NextLoaders]_vars

\* what the claim says a lookup of `name` in dictionary `d` gives
Expected(d, name) ==
    IF name \in DOMAIN d /\ d[name] # ABSENT
    THEN [ret |-> <<d[name], "test:" \o name>>, exc |-> NoExc]
    ELSE [ret |-> <<>>, exc |-> "TemplateDoesNotExist"]

\* the guard and the restore, as the claim states them
LoaderGuardAndRestore ==
    /\ (last_loader.op = "setup" /\ last_loader.exc = NoExc) =>
           /\ ~last_loader.before.original_template_source_loaders.present
           /\ Len(loader.template_source_loaders.items) = 1
           /\ loader.template_source_loaders.items[1] = last_loader.ret
           /\ last_loader.ret.dict = last_loader.dict
           /\ loader.original_template_source_loaders =
                  Slot(last_loader.before.template_source_loaders)
    /\ (last_loader.op = "setup"
           /\ last_loader.before.original_template_source_loaders.present) =>
           /\ last_loader.exc = "Exception"
           /\ loader = last_loader.before
    /\ (last_loader.op = "restore"
           /\ last_loader.before.original_template_source_loaders.present) =>
           /\ last_loader.exc = NoExc
           /\ loader.template_source_loaders = loaders_before_setup
           /\ ~loader.original_template_source_loaders.present

\* C11 as stated: whichever loader setup installed answers a lookup with
\* (content, "test:<name>") or TemplateDoesNotExist.
C11_LoaderReturnsSource ==
    /\ LoaderGuardAndRestore
    /\ last_loader.op = "find" =>
           last_loader.seen = Expected(last_loader.dict, last_loader.name)

\* C11: setup installs a single loader over the dictionary, which is the
\* dictionary loader itself, answering (content, "test:<name>") or
\* TemplateDoesNotExist, unless use_cached_loader asked for a cached.Loader
\* around it, which raises TemplateDoesNotExist for the same names; a second
\* setup raises and changes nothing; restore puts the earlier loaders back and
\* removes the save slot.
C11_LoaderRoundTrip ==
    /\ LoaderGuardAndRestore
    /\ last_loader.op = "find" =>
           /\ test_template_loader(last_loader.ret.dict, last_loader.name)
                  = Expected(last_loader.dict, last_loader.name)
           /\ ~last_loader.cached =>
                  last_loader.seen = Expected(last_loader.dict, last_loader.name)
           /\ last_loader.seen.exc = Expected(last_loader.dict, last_loader.name).exc

C11_Witness ==
    /\ last_loader.op = "restore"
    /\ last_loader.exc = NoExc
    /\ last_loader.n = 4
    /\ loader.template_source_loaders = ConfiguredLoaders
    /\ last_loader.before.template_source_loaders.items[1].kind = "function"

-----------------------------------------------------------------------------
(* Tests that save and restore the warning filters (tests.py 94-120) *)

\* self.save_warnings_state(): state = get_warnings_state()
SaveWarningsState ==
    /\ Len(lists) < MaxLists
    /\ LET r == get_warnings_state(lists, warnings_filters)
       IN  /\ lists' = r.lists
           /\ state' = r.ret
    /\ state_taken' = lists[warnings_filters]
    /\ last_warn' = [NoWarnStep EXCEPT !.op = "get"]
    /\ UNCHANGED <<warnings_filters, loaderVars, envVars, cacheVars, settingsVars, dbVars>>

\* warnings.simplefilter(item, ...)
SimpleFilter(item) ==
    /\ Len(lists[warnings_filters]) < MaxFilters
    /\ lists' = simplefilter(lists, warnings_filters, item)
    /\ last_warn' = [last_warn EXCEPT !.op = "add", !.added = @ + 1]
    /\ UNCHANGED <<warnings_filters, state, state_taken, loaderVars, envVars, cacheVars,
                   settingsVars, dbVars>>

\* self.restore_warnings_state(): restore_warnings_state(state)
RestoreWarningsState ==
    /\ state # 0
    /\ Len(lists) < MaxLists
    /\ LET r == restore_warnings_state(lists, state)
       IN  /\ lists' = r.lists
           /\ warnings_filters' = r.filters
    /\ last_warn' = [last_warn EXCEPT !.op = "restore", !.restores = @ + 1]
    /\ UNCHANGED <<state, state_taken, loaderVars, envVars, cacheVars, settingsVars, dbVars>>

InitWarnings ==
    /\ QuietEnv /\ InitCaches /\ InitSettings /\ InitDB
    /\ LoaderStart(NoLoaders)
    /\ \E l \in {<<>>, <<"default">>} : WarnStart(l)

NextWarnings ==
    \/ SaveWarningsState
    \/ \E item \in FilterItems : SimpleFilter(item)
    \/ RestoreWarningsState

SpecWarnings == InitWarnings /\ [][NextWarnings]_vars

\* C12: restoring a saved state makes warnings.filters equal to the list as it
\* was when the state was taken, every time it is restored, and filters added
\* in between never change the saved state.
C12_WarningsRoundTrip ==
    /\ last_warn.op = "restore" => lists[warnings_filters] = state_taken
    /\ state # 0 => lists[state] = state_taken

C12_Witness ==
    /\ last_warn.op = "restore"
    /\ last_warn.restores = 2
    /\ last_warn.added >= 2
    /\ state_taken # <<>>
    /\ lists[warnings_filters] = state_taken

-----------------------------------------------------------------------------
(* Test cases of a TransactionTestCase class that override_settings decorates.
   The runner calls _pre_setup, then the test method, then _post_teardown;
   a test whose _pre_setup raises is reported and not run.                  *)

\* @override_settings(**kwargs) on a class statement, between tests
DecorateClass(kwargs) ==
    /\ tc.phase = "idle"
    /\ Len(objs) < MaxObjs
    /\ objs' = Append(objs, override_settings(kwargs, settings_wrapped))
    /\ last_case' = [NoCaseStep EXCEPT !.op = "decorate", !.obj = Len(objs) + 1]
    /\ UNCHANGED <<settings_wrapped, stack, last_use, tc, envVars, cacheVars, dbVars,
                   helperVars>>

\* a test of the class objs[o] decorates starts: the wrapped _pre_setup runs
PreSetup(o, original) ==
    /\ tc.phase = "idle"
    /\ o \in 1..Len(objs)
    /\ Len(settings_wrapped) < MaxDepth
    /\ LET r == wrapped_pre_setup(objs[o], settings_wrapped, original)
       IN  /\ settings_wrapped' = r.wrapped
           /\ last_case' = [op |-> "pre_setup", obj |-> o, before |-> settings_wrapped,
                            during |-> r.during, seen |-> r.seen]
           /\ tc' = IF r.seen.kind = "raise" THEN NoTest
                    ELSE [phase |-> "test", obj |-> o, before |-> settings_wrapped]
    /\ UNCHANGED <<objs, stack, last_use, envVars, cacheVars, dbVars, helperVars>>

\* the test method has run: the wrapped _post_teardown runs
PostTeardown(original) ==
    /\ tc.phase = "test"
    /\ LET r == wrapped_post_teardown(objs[tc.obj], settings_wrapped, original)
       IN  /\ settings_wrapped' = r.wrapped
           /\ last_case' = [op |-> "post_teardown", obj |-> tc.obj, before |-> tc.before,
                            during |-> r.during, seen |-> r.seen]
    /\ tc' = NoTest
    /\ UNCHANGED <<objs, stack, last_use, envVars, cacheVars, dbVars, helperVars>>

InitTestCases == InitOverrides

NextTestCases ==
    \/ \E kwargs \in Kwargs : DecorateClass(kwargs)
    \/ \E o \in 1..MaxObjs, original \in Outcomes : PreSetup(o, original)
    \/ \E original \in Outcomes : PostTeardown(original)

SpecTestCases == InitTestCases /\ [][NextTestCases]_vars

\* the options of objs[o] read as their override values on holder h
InEffect(o, h) == \A n \in DOMAIN objs[o].options : getattr(h, n) = objs[o].options[n]

\* C13: for a decorated TransactionTestCase class the overrides are in effect
\* while the original _pre_setup, the test and the original _post_teardown run,
\* and once the wrapped _post_teardown has finished, by returning or by
\* raising, the settings are those from before the test.
C13_ClassOverrideScoped ==
    /\ last_case.op = "pre_setup" => InEffect(last_case.obj, last_case.during)
    /\ tc.phase = "test" => InEffect(tc.obj, settings_wrapped)
    /\ last_case.op = "post_teardown" =>
           /\ InEffect(last_case.obj, last_case.during)
           /\ settings_wrapped = last_case.before

-----------------------------------------------------------------------------
(* Nested overrides and the setting_changed signal, over the steps of
   SpecOverrides                                                            *)

\* C14: leaving a block puts back the holder that was in effect when the block
\* was entered, so the overrides of a block still running stay in effect,
\* whenever the objects were constructed.
C14_NestedRestore ==
    last_use.op = "exit" =>
        /\ settings_wrapped = last_use.before
        /\ stack # <<>> => InEffect(stack[Len(stack)].obj, settings_wrapped)

\* C15: enabling sends setting_changed once per overridden key with the key's
\* name and new value, after the value is stored on the holder, and a receiver
\* reading the key from the global settings gets the new value.
C15_SettingChangedSent ==
    last_use.op = "enter" =>
        LET options == objs[last_use.obj].options
            sent == last_use.sent
        IN  /\ Len(sent) = Cardinality(DOMAIN options)
            /\ \A k \in DOMAIN options :
                   Cardinality({i \in 1..Len(sent) : sent[i].setting = k}) = 1
            /\ \A i \in 1..Len(sent) :
                   /\ sent[i].value = options[sent[i].setting]
                   /\ sent[i].holder = sent[i].value
                   /\ sent[i].settings = sent[i].value

====
